---------------------------- MODULE Spec2Model ----------------------------
(***************************************************************************)
(* A model of the mORMaid diagram builders: the entity-relationship        *)
(* diagram container (src/erd) and the requirement diagram container       *)
(* (src/req), with the item builders they store and the text rendering of  *)
(* the items.  Rust Strings are TLA+ strings, Option<T> is a sequence of   *)
(* length 0 (None) or 1 (Some), a HashMap is a function whose DOMAIN is    *)
(* its key set, a Vec is a sequence.                                       *)
(***************************************************************************)
EXTENDS Integers, Sequences, FiniteSets, TLC

VARIABLES erd,      \* the ERD under construction
          old_erd,  \* the ERD as it was when the last ERD method was called
          diagram,  \* the RequirementDiagram under construction
          old_diagram, \* the RequirementDiagram when its last method was called
          call,     \* the last add_* or create_* method run: name, argument, outcome
          log,      \* per entity id, the entity of the last add_entity call a caller
                    \* made with it, or the placeholder an ERD method created for it
          item,     \* a value under construction by a chain of builder calls
          calls,    \* the builder calls made on item, after its constructor
          output    \* the String last returned for item (to_string, indent)

containers == <<erd, old_erd, diagram, old_diagram, call, log>>

vars == <<erd, old_erd, diagram, old_diagram, call, log, item, calls, output>>

(***************************************************************************)
(* Bounds of the model.                                                    *)
(***************************************************************************)
MaxCalls == 5
MaxRelationships == 2

(***************************************************************************)
(* Option<T> and HashMap helpers.                                          *)
(***************************************************************************)
None == <<>>
Some(v) == <<v>>

\* HashMap::insert: the value stored under key k is replaced, or k is added.
HashMap_insert(m, k, v) ==
    [x \in (DOMAIN m) \cup {k} |-> IF x = k THEN v ELSE m[x]]

\* HashMap::get
HashMap_get(m, k) == IF k \in DOMAIN m THEN Some(m[k]) ELSE None

HashMap_new == [x \in {} |-> x]

(***************************************************************************)
(* str helpers of the standard library.                                    *)
(***************************************************************************)
\* str::to_uppercase on ASCII text
to_uppercase_char(c) ==
    LET lower == "abcdefghijklmnopqrstuvwxyz"
        upper == "ABCDEFGHIJKLMNOPQRSTUVWXYZ"
        at == {i \in 1..Len(lower) : SubSeq(lower, i, i) = c}
    IN  IF at = {} THEN c ELSE LET i == CHOOSE i \in at : TRUE
                               IN  SubSeq(upper, i, i)

RECURSIVE to_uppercase(_)
to_uppercase(s) ==
    IF s = "" THEN "" ELSE to_uppercase_char(Head(s)) \o to_uppercase(Tail(s))

\* str::contains
contains(s, pat) ==
    \E i \in 1..(Len(s) - Len(pat) + 1) : SubSeq(s, i, i + Len(pat) - 1) = pat

\* str::lines: the text is cut after each line feed, the line feed and a
\* carriage return before it are dropped; a text that ends with a line feed
\* has no empty last line, and the empty text has no line.
\* The position of the first line feed of s at or after position i, 0 if
\* there is none.
RECURSIVE first_feed(_, _)
first_feed(s, i) ==
    IF i > Len(s) THEN 0
    ELSE IF SubSeq(s, i, i) = "\n" THEN i
    ELSE first_feed(s, i + 1)

RECURSIVE str_lines(_)
str_lines(s) ==
    IF s = "" THEN <<>>
    ELSE LET i == first_feed(s, 1)
         IN  IF i = 0 THEN <<s>>
             ELSE LET line == SubSeq(s, 1, i - 1)
                      stripped ==
                          IF line # ""
                                /\ SubSeq(line, Len(line), Len(line)) = "\r"
                          THEN SubSeq(line, 1, Len(line) - 1)
                          ELSE line
                  IN  <<stripped>> \o str_lines(SubSeq(s, i + 1, Len(s)))

(***************************************************************************)
(* src/erd/mod.rs: EntityId                                                *)
(***************************************************************************)
\* impl From<&str> for EntityId: the string is stored as it is given.
EntityId_from(s) == s

EntityId_as_str(id) == id

(***************************************************************************)
(* src/erd/entity.rs: Attribute, KeyConstraints, Entity                    *)
(***************************************************************************)
KeyConstraints_default ==
    [is_primary |-> FALSE, is_foreign |-> FALSE, is_unique |-> FALSE]

Attribute_new(attr_type, name) ==
    [attr_type |-> attr_type, name |-> name,
     key |-> KeyConstraints_default, comment |-> None]

with_comment(attr, comment) == [attr EXCEPT !.comment = Some(comment)]

as_primary_key(attr) == [attr EXCEPT !.key.is_primary = TRUE]

as_foreign_key(attr) == [attr EXCEPT !.key.is_foreign = TRUE]

as_unique(attr) == [attr EXCEPT !.key.is_unique = TRUE]

has_constraints(attr) ==
    attr.key.is_primary \/ attr.key.is_foreign \/ attr.key.is_unique

\* Faulty variant of the Display of KeyConstraints: the table row of
\* (false, true, true) lists the abbreviations in the other order.
KeyConstraints_fmt_swapped(key) ==
    CASE ~key.is_primary /\ ~key.is_foreign /\ ~key.is_unique -> ""
      [] key.is_primary /\ ~key.is_foreign /\ ~key.is_unique -> "PK"
      [] ~key.is_primary /\ key.is_foreign /\ ~key.is_unique -> "FK"
      [] ~key.is_primary /\ ~key.is_foreign /\ key.is_unique -> "UK"
      [] key.is_primary /\ key.is_foreign /\ ~key.is_unique -> "PK, FK"
      [] key.is_primary /\ ~key.is_foreign /\ key.is_unique -> "PK, UK"
      [] ~key.is_primary /\ key.is_foreign /\ key.is_unique -> "UK, FK"
      [] key.is_primary /\ key.is_foreign /\ key.is_unique -> "PK, FK, UK"

\* impl fmt::Display for KeyConstraints (through ConstraintCombo::from_bools)
KeyConstraints_fmt(key) ==
    CASE ~key.is_primary /\ ~key.is_foreign /\ ~key.is_unique -> ""
      [] key.is_primary /\ ~key.is_foreign /\ ~key.is_unique -> "PK"
      [] ~key.is_primary /\ key.is_foreign /\ ~key.is_unique -> "FK"
      [] ~key.is_primary /\ ~key.is_foreign /\ key.is_unique -> "UK"
      [] key.is_primary /\ key.is_foreign /\ ~key.is_unique -> "PK, FK"
      [] key.is_primary /\ ~key.is_foreign /\ key.is_unique -> "PK, UK"
      [] ~key.is_primary /\ key.is_foreign /\ key.is_unique -> "FK, UK"
      [] key.is_primary /\ key.is_foreign /\ key.is_unique -> "PK, FK, UK"

\* impl fmt::Display for Attribute
Attribute_fmt(attr) ==
    LET required == attr.attr_type \o " " \o attr.name
        keyed == IF has_constraints(attr)
                 THEN required \o " " \o KeyConstraints_fmt(attr.key)
                 ELSE required
    IN  IF attr.comment # None
        THEN keyed \o " \"" \o attr.comment[1] \o "\""
        ELSE keyed

Entity_new(id) == [id |-> id, alias |-> None, attributes |-> <<>>]

\* Faulty variant of with_alias: an alias that is set is kept.
with_alias_keep_first(entity, alias) ==
    IF entity.alias = None THEN [entity EXCEPT !.alias = Some(alias)] ELSE entity

with_alias(entity, alias) == [entity EXCEPT !.alias = Some(alias)]

add_attribute(entity, attribute) ==
    [entity EXCEPT !.attributes = Append(@, attribute)]

\* impl fmt::Display for Entity: the id, then the alias if there is one.
Entity_fmt(entity) ==
    IF entity.alias # None
    THEN entity.id \o "[\"" \o entity.alias[1] \o "\"]"
    ELSE entity.id

(***************************************************************************)
(* src/erd/relationship.rs: Cardinality, Relationship                      *)
(***************************************************************************)
Cardinality_all == {"ZeroOrOne", "ExactlyOne", "ZeroOrMore", "OneOrMore"}

\* Faulty variant of fmt_with_direction: ZeroOrMore on the right is written
\* with the symbol of the left.
fmt_with_direction_same_side(cardinality, dir) ==
    CASE cardinality = "ZeroOrOne" /\ dir = "Left" -> "|o"
      [] cardinality = "ExactlyOne" /\ dir = "Left" -> "||"
      [] cardinality = "ZeroOrMore" /\ dir = "Left" -> "}o"
      [] cardinality = "OneOrMore" /\ dir = "Left" -> "}|"
      [] cardinality = "ZeroOrOne" /\ dir = "Right" -> "o|"
      [] cardinality = "ExactlyOne" /\ dir = "Right" -> "||"
      [] cardinality = "ZeroOrMore" /\ dir = "Right" -> "}o"
      [] cardinality = "OneOrMore" /\ dir = "Right" -> "|{"

fmt_with_direction(cardinality, dir) ==
    CASE cardinality = "ZeroOrOne" /\ dir = "Left" -> "|o"
      [] cardinality = "ExactlyOne" /\ dir = "Left" -> "||"
      [] cardinality = "ZeroOrMore" /\ dir = "Left" -> "}o"
      [] cardinality = "OneOrMore" /\ dir = "Left" -> "}|"
      [] cardinality = "ZeroOrOne" /\ dir = "Right" -> "o|"
      [] cardinality = "ExactlyOne" /\ dir = "Right" -> "||"
      [] cardinality = "ZeroOrMore" /\ dir = "Right" -> "o{"
      [] cardinality = "OneOrMore" /\ dir = "Right" -> "|{"

erd_Relationship_new(left_id, right_id, left_cardinality, right_cardinality) ==
    [left_id |-> EntityId_from(left_id),
     right_id |-> EntityId_from(right_id),
     left_cardinality |-> left_cardinality,
     right_cardinality |-> right_cardinality,
     is_identifying |-> TRUE,
     label |-> None]

as_non_identifying(relationship) ==
    [relationship EXCEPT !.is_identifying = FALSE]

with_label(relationship, label) ==
    [relationship EXCEPT !.label = Some(label)]

\* impl fmt::Display for Relationship (ERD)
erd_Relationship_fmt(r) ==
    LET left_str == EntityId_as_str(r.left_id) \o " "
                        \o fmt_with_direction(r.left_cardinality, "Left")
        right_str == fmt_with_direction(r.right_cardinality, "Right")
                        \o " " \o EntityId_as_str(r.right_id)
        relationship_str == IF r.is_identifying
                            THEN left_str \o "--" \o right_str
                            ELSE left_str \o ".." \o right_str
    IN  IF r.label # None
        THEN relationship_str \o " : \"" \o r.label[1] \o "\""
        ELSE relationship_str

(***************************************************************************)
(* src/erd/mod.rs: ERD                                                     *)
(***************************************************************************)
ERD_new == [title |-> None, entities |-> HashMap_new, relationships |-> <<>>]

\* Faulty variant of add_entity: an entity stored under the id is kept
\* (entry().or_insert() in place of insert()).
ERD_add_entity_keep_first(e, entity) ==
    IF EntityId_from(entity.id) \in DOMAIN e.entities
    THEN e
    ELSE [e EXCEPT !.entities = HashMap_insert(@, EntityId_from(entity.id), entity)]

\* Faulty variant of add_entity: the relationships that refer to the id of
\* the entity are dropped.
ERD_add_entity_drops_relationships(e, entity) ==
    LET id == EntityId_from(entity.id)
        Other(relationship) ==
            relationship.left_id # id /\ relationship.right_id # id
    IN  [e EXCEPT !.entities = HashMap_insert(@, id, entity),
                  !.relationships = SelectSeq(@, Other)]

\* Faulty variant of add_entity: the key is the upper-cased id.
ERD_add_entity_uppercase_key(e, entity) ==
    LET id == EntityId_from(to_uppercase(entity.id))
    IN  [e EXCEPT !.entities = HashMap_insert(@, id, entity)]

ERD_add_entity(e, entity) ==
    LET id == EntityId_from(entity.id)
    IN  [e EXCEPT !.entities = HashMap_insert(@, id, entity)]

ERD_with_entity(e, entity) == ERD_add_entity(e, entity)

ERD_get_entity_by_id(e, id) == HashMap_get(e.entities, id)

\* Faulty variant of create_entity_if_missing: the placeholder carries its id as alias.
ERD_create_entity_if_missing_aliased(e, id) ==
    IF ERD_get_entity_by_id(e, id) = None
    THEN ERD_add_entity(e, with_alias(Entity_new(EntityId_as_str(id)),
                                      EntityId_as_str(id)))
    ELSE e

\* Faulty variant of create_entity_if_missing: the test for a stored entity is lost.
ERD_create_entity_if_missing_always(e, id) ==
    ERD_add_entity(e, Entity_new(EntityId_as_str(id)))

ERD_create_entity_if_missing(e, id) ==
    IF ERD_get_entity_by_id(e, id) = None
    THEN ERD_add_entity(e, Entity_new(EntityId_as_str(id)))
    ELSE e

\* Faulty variant of add_relationship: no endpoint is created.
ERD_add_relationship_no_create(e, relationship) ==
    [e EXCEPT !.relationships = Append(@, relationship)]

\* Faulty variant of add_relationship: the right endpoint is not created.
ERD_add_relationship_left_only(e, relationship) ==
    LET e1 == ERD_create_entity_if_missing(e, relationship.left_id)
    IN  [e1 EXCEPT !.relationships = Append(@, relationship)]

\* Faulty variant of add_relationship: a relationship equal to a stored one
\* is not appended.
ERD_add_relationship_no_duplicate(e, relationship) ==
    LET e1 == ERD_create_entity_if_missing(e, relationship.left_id)
        e2 == ERD_create_entity_if_missing(e1, relationship.right_id)
    IN  IF \E i \in DOMAIN e.relationships : e.relationships[i] = relationship
        THEN e2
        ELSE [e2 EXCEPT !.relationships = Append(@, relationship)]

ERD_add_relationship(e, relationship) ==
    LET e1 == ERD_create_entity_if_missing(e, relationship.left_id)
        e2 == ERD_create_entity_if_missing(e1, relationship.right_id)
    IN  [e2 EXCEPT !.relationships = Append(@, relationship)]

ERD_with_relationship(e, relationship) == ERD_add_relationship(e, relationship)


(***************************************************************************)
(* src/erd/utils.rs: Indent::indent, append_items                          *)
(***************************************************************************)
\* str::repeat
RECURSIVE str_repeat(_, _)
str_repeat(s, n) == IF n = 0 THEN "" ELSE s \o str_repeat(s, n - 1)

\* [String]::join
RECURSIVE join(_, _)
join(strings, separator) ==
    IF strings = <<>> THEN ""
    ELSE IF Len(strings) = 1 THEN strings[1]
    ELSE strings[1] \o separator \o join(Tail(strings), separator)

\* impl Indent for str
indent(s, size) ==
    LET indentation == str_repeat(" ", size)
        lines == str_lines(s)
    IN  join([i \in 1..Len(lines) |-> indentation \o lines[i]], "\n")

\* append_items; items holds item.to_string() of each item, in the order
\* the iterator yields them.
RECURSIVE append_each(_, _, _)
append_each(curr_str, items, size) ==
    IF items = <<>>
    THEN curr_str
    ELSE append_each(curr_str \o "\n" \o indent(Head(items), size),
                     Tail(items), size)

\* Faulty variant of append_items: the lines of an item after its first
\* line are not indented.
append_items_first_line_only(curr_str, items, note, size) ==
    LET started == curr_str \o "\n" \o str_repeat(" ", size)
                        \o "%% " \o note \o " start"
        appended == [i \in DOMAIN items |->
                        "\n" \o str_repeat(" ", size) \o items[i]]
    IN  started \o join(appended, "")
            \o "\n" \o str_repeat(" ", size) \o "%% " \o note \o " end"

append_items(curr_str, items, note, size) ==
    LET started == curr_str \o "\n" \o str_repeat(" ", size)
                        \o "%% " \o note \o " start"
    IN  append_each(started, items, size)
            \o "\n" \o str_repeat(" ", size) \o "%% " \o note \o " end"

\* The orders in which HashMap::values() may yield the values of a map:
\* every arrangement of its keys.
IterationOrders(m) ==
    {order \in [1..Cardinality(DOMAIN m) -> DOMAIN m] :
        \A i, j \in DOMAIN order : order[i] = order[j] => i = j}

\* Faulty variant of the Display of ERD: the relationships section is
\* written also when there is no relationship.
ERD_fmt_always_relationships(e, order) ==
    LET erd_str == "erDiagram"
        with_entities ==
            IF DOMAIN e.entities # {}
            THEN append_items(
                    erd_str,
                    [i \in DOMAIN order |-> Entity_fmt(e.entities[order[i]])],
                    "Entities", 4)
            ELSE erd_str
    IN  append_items(
            with_entities,
            [i \in DOMAIN e.relationships |->
                erd_Relationship_fmt(e.relationships[i])],
            "Relationships", 4)

\* Faulty variant of the Display of ERD: the relationships are written
\* last added first.
ERD_fmt_last_first(e, order) ==
    LET erd_str == "erDiagram"
        n == Len(e.relationships)
        with_entities ==
            IF DOMAIN e.entities # {}
            THEN append_items(
                    erd_str,
                    [i \in DOMAIN order |-> Entity_fmt(e.entities[order[i]])],
                    "Entities", 4)
            ELSE erd_str
    IN  IF e.relationships # <<>>
        THEN append_items(
                with_entities,
                [i \in DOMAIN e.relationships |->
                    erd_Relationship_fmt(e.relationships[n + 1 - i])],
                "Relationships", 4)
        ELSE with_entities

\* impl fmt::Display for ERD; order is the order in which entities.values()
\* yields the entities.
ERD_fmt(e, order) ==
    LET erd_str == "erDiagram"
        with_entities ==
            IF DOMAIN e.entities # {}
            THEN append_items(
                    erd_str,
                    [i \in DOMAIN order |-> Entity_fmt(e.entities[order[i]])],
                    "Entities", 4)
            ELSE erd_str
    IN  IF e.relationships # <<>>
        THEN append_items(
                with_entities,
                [i \in DOMAIN e.relationships |->
                    erd_Relationship_fmt(e.relationships[i])],
                "Relationships", 4)
        ELSE with_entities

(***************************************************************************)
(* src/req/element.rs, src/requirement/requirement.rs,                     *)
(* src/requirement/relationship.rs: the items of a requirement diagram     *)
(***************************************************************************)
Element_new(name, kind) == [name |-> name, kind |-> kind, docref |-> None]

with_docref(element, docref) == [element EXCEPT !.docref = Some(docref)]

Requirement_new(kind, name, id) ==
    [kind |-> kind, name |-> name, id |-> id,
     text |-> None, risk |-> None, verify_method |-> None]

with_text(req, text) == [req EXCEPT !.text = Some(text)]

with_risk(req, risk) == [req EXCEPT !.risk = Some(risk)]

with_verify_method(req, method) == [req EXCEPT !.verify_method = Some(method)]

req_Relationship_new(source, target, kind) ==
    [source |-> source, target |-> target, kind |-> kind]

\* impl fmt::Display for Element
Element_fmt(element) ==
    "element " \o element.name \o " {\n"
        \o "    type: \"" \o element.kind \o "\"\n"
        \o (IF element.docref # None
            THEN "    docref: " \o element.docref[1] \o "\n"
            ELSE "")
        \o "}"

RequirementType_all ==
    {"Default", "Functional", "Interface", "Performance", "Physical",
     "DesignConstraint"}

\* impl fmt::Display for RequirementType
RequirementType_fmt(kind) ==
    CASE kind = "Default" -> "requirement"
      [] kind = "Functional" -> "functionalRequirement"
      [] kind = "Interface" -> "interfaceRequirement"
      [] kind = "Performance" -> "performanceRequirement"
      [] kind = "Physical" -> "physicalRequirement"
      [] kind = "DesignConstraint" -> "designConstraint"

Risk_all == {"Low", "Medium", "High"}

\* impl fmt::Display for Risk
Risk_fmt(risk) ==
    CASE risk = "Low" -> "Low"
      [] risk = "Medium" -> "Medium"
      [] risk = "High" -> "High"

VerifyMethod_all == {"Analysis", "Inspection", "Test", "Demo"}

\* impl fmt::Display for VerifyMethod
VerifyMethod_fmt(method) ==
    CASE method = "Analysis" -> "Analysis"
      [] method = "Inspection" -> "Inspection"
      [] method = "Test" -> "Test"
      [] method = "Demo" -> "Demonstration"

\* Faulty variant of the Display of Requirement: the fields are written in
\* the order text, risk, verify method.
Requirement_fmt_text_first(req) ==
    RequirementType_fmt(req.kind) \o " " \o req.name \o " {"
        \o "\n    id: " \o req.id
        \o (IF req.text # None
            THEN "\n    text: \"" \o req.text[1] \o "\""
            ELSE "")
        \o (IF req.risk # None
            THEN "\n    risk: " \o Risk_fmt(req.risk[1])
            ELSE "")
        \o (IF req.verify_method # None
            THEN "\n    verifymethod: " \o VerifyMethod_fmt(req.verify_method[1])
            ELSE "")
        \o "\n}"

\* impl fmt::Display for Requirement
Requirement_fmt(req) ==
    RequirementType_fmt(req.kind) \o " " \o req.name \o " {"
        \o "\n    id: " \o req.id
        \o (IF req.risk # None
            THEN "\n    risk: " \o Risk_fmt(req.risk[1])
            ELSE "")
        \o (IF req.text # None
            THEN "\n    text: \"" \o req.text[1] \o "\""
            ELSE "")
        \o (IF req.verify_method # None
            THEN "\n    verifymethod: " \o VerifyMethod_fmt(req.verify_method[1])
            ELSE "")
        \o "\n}"

RelationshipType_all ==
    {"Contains", "Copies", "Derives", "Satisfies", "Verifies", "Refines",
     "Traces"}

\* Faulty variant of the Display of RelationshipType: Verifies is written
\* with the word of Satisfies.
RelationshipType_fmt_shared_word(kind) ==
    CASE kind = "Contains" -> "contains"
      [] kind = "Copies" -> "copies"
      [] kind = "Derives" -> "derives"
      [] kind = "Satisfies" -> "satisfies"
      [] kind = "Verifies" -> "satisfies"
      [] kind = "Refines" -> "refines"
      [] kind = "Traces" -> "traces"

\* impl fmt::Display for RelationshipType
RelationshipType_fmt(kind) ==
    CASE kind = "Contains" -> "contains"
      [] kind = "Copies" -> "copies"
      [] kind = "Derives" -> "derives"
      [] kind = "Satisfies" -> "satisfies"
      [] kind = "Verifies" -> "verifies"
      [] kind = "Refines" -> "refines"
      [] kind = "Traces" -> "traces"

\* impl fmt::Display for Relationship (requirement diagram)
req_Relationship_fmt(relationship) ==
    relationship.source \o " - " \o RelationshipType_fmt(relationship.kind)
        \o " -> " \o relationship.target

(***************************************************************************)
(* src/req/mod.rs: RequirementDiagram                                      *)
(***************************************************************************)
RequirementDiagram_new ==
    [requirements |-> HashMap_new, elements |-> HashMap_new,
     relationships |-> <<>>]

\* Faulty variant of add_element: elements and requirements share their
\* names, a requirement of the element's name is removed.
RequirementDiagram_add_element_shared_names(d, element) ==
    LET kept == DOMAIN d.requirements \ {element.name}
    IN  [d EXCEPT !.elements = HashMap_insert(@, element.name, element),
                  !.requirements = [name \in kept |-> d.requirements[name]]]

\* Faulty variant of add_element: an element whose name is already a key
\* is not stored.
RequirementDiagram_add_element_keep_first(d, element) ==
    IF element.name \in DOMAIN d.elements
    THEN d
    ELSE [d EXCEPT !.elements = HashMap_insert(@, element.name, element)]

RequirementDiagram_add_element(d, element) ==
    [d EXCEPT !.elements = HashMap_insert(@, element.name, element)]

RequirementDiagram_get_element_by_name(d, name) == HashMap_get(d.elements, name)

RequirementDiagram_add_requirement(d, req) ==
    [d EXCEPT !.requirements = HashMap_insert(@, req.name, req)]

RequirementDiagram_get_requirement_by_name(d, name) ==
    HashMap_get(d.requirements, name)

found_in_diagram(d, name) ==
    name \in DOMAIN d.elements \/ name \in DOMAIN d.requirements

\* The message of the failed assert! of add_relationship.
not_found_message(name) ==
    name \o " isn't found in the list of elements or requirements"

\* Faulty variant of add_relationship: the target is not checked.
RequirementDiagram_add_relationship_source_only(d, relationship) ==
    IF ~found_in_diagram(d, relationship.source)
    THEN [diagram |-> d, panic |-> Some(not_found_message(relationship.source))]
    ELSE [diagram |-> [d EXCEPT !.relationships = Append(@, relationship)],
          panic |-> None]

\* Faulty variant of add_relationship: the relationship is pushed before the checks.
RequirementDiagram_add_relationship_push_first(d, relationship) ==
    LET pushed == [d EXCEPT !.relationships = Append(@, relationship)]
    IN  IF ~found_in_diagram(d, relationship.source)
        THEN [diagram |-> pushed,
              panic |-> Some(not_found_message(relationship.source))]
        ELSE IF ~found_in_diagram(d, relationship.target)
        THEN [diagram |-> pushed,
              panic |-> Some(not_found_message(relationship.target))]
        ELSE [diagram |-> pushed, panic |-> None]

\* Faulty variant of add_relationship: a missing endpoint is created as an element,
\* as the ERD creates a missing entity.
RequirementDiagram_add_relationship_auto_create(d, relationship) ==
    LET create(x, name) ==
            IF found_in_diagram(x, name)
            THEN x
            ELSE RequirementDiagram_add_element(x, Element_new(name, ""))
        d1 == create(d, relationship.source)
        d2 == create(d1, relationship.target)
    IN  [diagram |-> [d2 EXCEPT !.relationships = Append(@, relationship)],
         panic |-> None]

\* add_relationship: the diagram after the call, and the panic message if
\* one of the two assert! fails (the source is checked first); a panic
\* leaves the diagram as it was, the push being the last statement.
\* Faulty variant of add_relationship: the target is checked before the
\* source.
RequirementDiagram_add_relationship_target_first(d, relationship) ==
    LET src == relationship.source
        tgt == relationship.target
    IN  IF ~found_in_diagram(d, tgt)
        THEN [diagram |-> d, panic |-> Some(not_found_message(tgt))]
        ELSE IF ~found_in_diagram(d, src)
        THEN [diagram |-> d, panic |-> Some(not_found_message(src))]
        ELSE [diagram |-> [d EXCEPT !.relationships = Append(@, relationship)],
              panic |-> None]

RequirementDiagram_add_relationship(d, relationship) ==
    LET src == relationship.source
        tgt == relationship.target
    IN  IF ~found_in_diagram(d, src)
        THEN [diagram |-> d, panic |-> Some(not_found_message(src))]
        ELSE IF ~found_in_diagram(d, tgt)
        THEN [diagram |-> d, panic |-> Some(not_found_message(tgt))]
        ELSE [diagram |-> [d EXCEPT !.relationships = Append(@, relationship)],
              panic |-> None]

RequirementDiagram_with_element(d, element) ==
    RequirementDiagram_add_element(d, element)

RequirementDiagram_with_requirement(d, req) ==
    RequirementDiagram_add_requirement(d, req)

\* Like add_relationship: the diagram is returned when no assert! failed.
RequirementDiagram_with_relationship(d, relationship) ==
    RequirementDiagram_add_relationship(d, relationship)

\* Faulty variant of the Display of RequirementDiagram: the requirements
\* are written before the elements.
RequirementDiagram_fmt_requirements_first(d, element_order, requirement_order) ==
    LET out_str == "requirementDiagram"
        with_requirements ==
            IF DOMAIN d.requirements # {}
            THEN append_items(
                    out_str,
                    [i \in DOMAIN requirement_order |->
                        Requirement_fmt(d.requirements[requirement_order[i]])],
                    "Requirements", 4)
            ELSE out_str
        with_elements ==
            IF DOMAIN d.elements # {}
            THEN append_items(
                    with_requirements,
                    [i \in DOMAIN element_order |->
                        Element_fmt(d.elements[element_order[i]])],
                    "Elements", 4)
            ELSE with_requirements
    IN  IF d.relationships # <<>>
        THEN append_items(
                with_elements,
                [i \in DOMAIN d.relationships |->
                    req_Relationship_fmt(d.relationships[i])],
                "Relationships", 4)
        ELSE with_elements

\* impl fmt::Display for RequirementDiagram; element_order and
\* requirement_order are the orders in which elements.values() and
\* requirements.values() yield their values.
RequirementDiagram_fmt(d, element_order, requirement_order) ==
    LET out_str == "requirementDiagram"
        with_elements ==
            IF DOMAIN d.elements # {}
            THEN append_items(
                    out_str,
                    [i \in DOMAIN element_order |->
                        Element_fmt(d.elements[element_order[i]])],
                    "Elements", 4)
            ELSE out_str
        with_requirements ==
            IF DOMAIN d.requirements # {}
            THEN append_items(
                    with_elements,
                    [i \in DOMAIN requirement_order |->
                        Requirement_fmt(d.requirements[requirement_order[i]])],
                    "Requirements", 4)
            ELSE with_elements
    IN  IF d.relationships # <<>>
        THEN append_items(
                with_requirements,
                [i \in DOMAIN d.relationships |->
                    req_Relationship_fmt(d.relationships[i])],
                "Relationships", 4)
        ELSE with_requirements

(***************************************************************************)
(* The values the callers pass.                                            *)
(***************************************************************************)
IdPool == {"ALBUM", "album", "SONG"}

\* Entity::new(id), Entity::new(id).with_alias(..) and
\* Entity::new(id).add_attribute(..).add_attribute(..)
EntityInputs ==
    {Entity_new(id) : id \in IdPool}
    \cup {with_alias(Entity_new(id), "album_table") : id \in IdPool}
    \cup {add_attribute(
              add_attribute(Entity_new(id),
                            as_primary_key(Attribute_new("int", "albumId"))),
              Attribute_new("str", "title")) : id \in IdPool}

ErdRelationshipInputs ==
    {erd_Relationship_new(l, r, "ExactlyOne", "OneOrMore") :
        l \in IdPool, r \in IdPool}

NamePool == {"foo", "Foo"}

ElementInputs ==
    {Element_new(name, "brief") : name \in NamePool}
    \cup {with_docref(Element_new(name, "brief"), "releases/0.1.1/search") :
            name \in NamePool}

RequirementInputs ==
    {Requirement_new("Default", name, "1.1.1") : name \in NamePool}
    \cup {with_risk(Requirement_new("Functional", name, "1.1.2"), "Low") :
            name \in NamePool}

ReqRelationshipInputs ==
    {req_Relationship_new(s, t, kind) :
        s \in NamePool, t \in NamePool, kind \in {"Satisfies", "Copies"}}

(***************************************************************************)
(* The state machine: one action per public method of the containers.     *)
(***************************************************************************)
Called(op, arg, panic) == [op |-> op, arg |-> arg, panic |-> panic]

\* The entity ids a call has added to the ERD.
NewKeys(before, after) == (DOMAIN after.entities) \ (DOMAIN before.entities)

\* The log once the ids of `created` got their placeholder Entity::new(id).
Placeholders(l, created) ==
    [id \in (DOMAIN l) \cup created |->
        IF id \in created THEN Entity_new(EntityId_as_str(id)) ELSE l[id]]

\* ERD::new() and RequirementDiagram::new()
NewContainers ==
    /\ erd = ERD_new
    /\ old_erd = ERD_new
    /\ diagram = RequirementDiagram_new
    /\ old_diagram = RequirementDiagram_new
    /\ call = Called("new", <<>>, None)
    /\ log = HashMap_new

Init ==
    /\ NewContainers
    /\ item = None
    /\ calls = <<>>
    /\ output = None

AddEntity ==
    \E entity \in EntityInputs :
        /\ erd' = ERD_add_entity(erd, entity)
        /\ old_erd' = erd
        /\ call' = Called("add_entity", entity, None)
        /\ log' = HashMap_insert(log, EntityId_from(entity.id), entity)
        /\ UNCHANGED <<diagram, old_diagram, item, calls, output>>

WithEntity ==
    \E entity \in EntityInputs :
        /\ erd' = ERD_with_entity(erd, entity)
        /\ old_erd' = erd
        /\ call' = Called("add_entity", entity, None)
        /\ log' = HashMap_insert(log, EntityId_from(entity.id), entity)
        /\ UNCHANGED <<diagram, old_diagram, item, calls, output>>

CreateEntityIfMissing ==
    \E id \in IdPool :
        /\ erd' = ERD_create_entity_if_missing(erd, EntityId_from(id))
        /\ old_erd' = erd
        /\ call' = Called("create_entity_if_missing", EntityId_from(id), None)
        /\ log' = Placeholders(log, NewKeys(erd, erd'))
        /\ UNCHANGED <<diagram, old_diagram, item, calls, output>>

AddRelationship ==
    /\ Len(erd.relationships) < MaxRelationships
    /\ \E relationship \in ErdRelationshipInputs :
        /\ erd' = ERD_add_relationship(erd, relationship)
        /\ old_erd' = erd
        /\ call' = Called("add_relationship", relationship, None)
        /\ log' = Placeholders(log, NewKeys(erd, erd'))
        /\ UNCHANGED <<diagram, old_diagram, item, calls, output>>

WithRelationship ==
    /\ Len(erd.relationships) < MaxRelationships
    /\ \E relationship \in ErdRelationshipInputs :
        /\ erd' = ERD_with_relationship(erd, relationship)
        /\ old_erd' = erd
        /\ call' = Called("add_relationship", relationship, None)
        /\ log' = Placeholders(log, NewKeys(erd, erd'))
        /\ UNCHANGED <<diagram, old_diagram, item, calls, output>>

\* In the construction of a RequirementDiagram log holds, for each kind
\* ("element" or "requirement") and name, the item most recently passed to
\* add_element / with_element or add_requirement / with_requirement.
AddElement ==
    \E element \in ElementInputs :
        /\ diagram' = RequirementDiagram_add_element(diagram, element)
        /\ old_diagram' = diagram
        /\ call' = Called("add_element", element, None)
        /\ log' = HashMap_insert(log, <<"element", element.name>>, element)
        /\ UNCHANGED <<erd, old_erd, item, calls, output>>

WithElement ==
    \E element \in ElementInputs :
        /\ diagram' = RequirementDiagram_with_element(diagram, element)
        /\ old_diagram' = diagram
        /\ call' = Called("add_element", element, None)
        /\ log' = HashMap_insert(log, <<"element", element.name>>, element)
        /\ UNCHANGED <<erd, old_erd, item, calls, output>>

AddRequirement ==
    \E req \in RequirementInputs :
        /\ diagram' = RequirementDiagram_add_requirement(diagram, req)
        /\ old_diagram' = diagram
        /\ call' = Called("add_requirement", req, None)
        /\ log' = HashMap_insert(log, <<"requirement", req.name>>, req)
        /\ UNCHANGED <<erd, old_erd, item, calls, output>>

WithRequirement ==
    \E req \in RequirementInputs :
        /\ diagram' = RequirementDiagram_with_requirement(diagram, req)
        /\ old_diagram' = diagram
        /\ call' = Called("add_requirement", req, None)
        /\ log' = HashMap_insert(log, <<"requirement", req.name>>, req)
        /\ UNCHANGED <<erd, old_erd, item, calls, output>>

ReqAddRelationship ==
    /\ Len(diagram.relationships) < MaxRelationships
    /\ \E relationship \in ReqRelationshipInputs :
        LET result == RequirementDiagram_add_relationship(diagram, relationship)
        IN  /\ diagram' = result.diagram
            /\ old_diagram' = diagram
            /\ call' = Called("add_relationship", relationship, result.panic)
            /\ UNCHANGED <<erd, old_erd, log, item, calls, output>>

ErdNext ==
    \/ AddEntity
    \/ WithEntity
    \/ CreateEntityIfMissing
    \/ AddRelationship
    \/ WithRelationship

ReqNext ==
    \/ AddElement
    \/ WithElement
    \/ AddRequirement
    \/ WithRequirement
    \/ ReqAddRelationship

\* The construction of an ERD.
ErdSpec == Init /\ [][ErdNext]_vars

\* The construction of a RequirementDiagram.
ReqSpec == Init /\ [][ReqNext]_vars

(***************************************************************************)
(* Properties of the ERD container.                                        *)
(***************************************************************************)
EntityCount(e) == Cardinality(DOMAIN e.entities)

ErdRelationshipAdded == call.op = "add_relationship"

\* C1: every relationship stored in ERD.relationships has its left_id and
\* its right_id among the keys of ERD.entities, whatever sequence of
\* add_entity, with_entity, create_entity_if_missing, add_relationship and
\* with_relationship calls built the ERD.
C1_RelationshipsNeverDangle ==
    \A i \in 1..Len(erd.relationships) :
        /\ erd.relationships[i].left_id \in DOMAIN erd.entities
        /\ erd.relationships[i].right_id \in DOMAIN erd.entities

\* C1 witness: a relationship was added whose two endpoints were both
\* missing from the ERD, after an earlier relationship was stored.
C1_Witness ==
    /\ ErdRelationshipAdded
    /\ Len(erd.relationships) = 2
    /\ call.arg.left_id \notin DOMAIN old_erd.entities
    /\ call.arg.right_id \notin DOMAIN old_erd.entities
    /\ call.arg.left_id # call.arg.right_id

\* C4: add_relationship between two ids that were both absent adds exactly
\* two entities and one relationship; between two ids that were both
\* present it adds no entity and one relationship.
C4_EntityCountAfterAddRelationship ==
    ErdRelationshipAdded =>
        LET l == call.arg.left_id
            r == call.arg.right_id
            present == DOMAIN old_erd.entities
        IN  /\ Len(erd.relationships) = Len(old_erd.relationships) + 1
            /\ (l # r /\ l \notin present /\ r \notin present)
                    => EntityCount(erd) = EntityCount(old_erd) + 2
            /\ (l \in present /\ r \in present)
                    => EntityCount(erd) = EntityCount(old_erd)

\* C4 witness: a relationship between two absent ids was added to an ERD
\* that already held another entity.
C4_Witness ==
    /\ ErdRelationshipAdded
    /\ call.arg.left_id # call.arg.right_id
    /\ {call.arg.left_id, call.arg.right_id} \cap DOMAIN old_erd.entities = {}
    /\ EntityCount(old_erd) = 1
    /\ EntityCount(erd) = 3

\* C5: add_relationship never fails; it appends the relationship, and each
\* endpoint that was absent is now stored as a placeholder whose id is the
\* endpoint, with no alias and no attribute.
C5_AddRelationshipCreatesPlaceholders ==
    ErdRelationshipAdded =>
        /\ call.panic = None
        /\ erd.relationships = Append(old_erd.relationships, call.arg)
        /\ \A id \in {call.arg.left_id, call.arg.right_id} :
              id \notin DOMAIN old_erd.entities =>
                /\ id \in DOMAIN erd.entities
                /\ erd.entities[id].id = id
                /\ erd.entities[id].alias = None
                /\ erd.entities[id].attributes = <<>>

\* C5 witness: a relationship was added with one endpoint stored (with
\* attributes) and the other one absent.
C5_Witness ==
    /\ ErdRelationshipAdded
    /\ call.arg.left_id \in DOMAIN old_erd.entities
    /\ old_erd.entities[call.arg.left_id].attributes # <<>>
    /\ call.arg.right_id \notin DOMAIN old_erd.entities
    /\ call.arg.right_id \in DOMAIN erd.entities

\* C6: entity identifiers are normalized to uppercase: the keys of entities
\* that differ only in letter case are one key, and a stored relationship
\* holds the uppercase form of its two endpoint ids.
C6_EntityIdsAreUppercase ==
    /\ \A k1 \in DOMAIN erd.entities, k2 \in DOMAIN erd.entities :
          to_uppercase(k1) = to_uppercase(k2) => k1 = k2
    /\ \A i \in 1..Len(erd.relationships) :
          /\ erd.relationships[i].left_id
                = to_uppercase(erd.relationships[i].left_id)
          /\ erd.relationships[i].right_id
                = to_uppercase(erd.relationships[i].right_id)

\* C7: get_entity_by_id(id) returns the entity of the last add_entity call
\* made with that id, nothing of an earlier entity being kept, and None for
\* an id that was neither added nor created as a placeholder; adding an
\* entity under an id that is stored does not change the number of entities.
C7_LastAddedEntityWins ==
    /\ \A id \in IdPool :
          ERD_get_entity_by_id(erd, EntityId_from(id))
              = HashMap_get(log, EntityId_from(id))
    /\ (call.op = "add_entity"
            /\ EntityId_from(call.arg.id) \in DOMAIN old_erd.entities)
         => EntityCount(erd) = EntityCount(old_erd)

\* C7 witness: a bare entity was added under an id that stored an entity
\* with attributes and that a relationship refers to, while another id has
\* never been stored.
C7_Witness ==
    /\ call.op = "add_entity"
    /\ EntityId_from(call.arg.id) \in DOMAIN old_erd.entities
    /\ old_erd.entities[EntityId_from(call.arg.id)].attributes # <<>>
    /\ call.arg = Entity_new(call.arg.id)
    /\ ERD_get_entity_by_id(erd, EntityId_from(call.arg.id)) = Some(call.arg)
    /\ \E i \in 1..Len(erd.relationships) :
          erd.relationships[i].left_id = EntityId_from(call.arg.id)
    /\ \E id \in IdPool : ERD_get_entity_by_id(erd, EntityId_from(id)) = None

\* C8: create_entity_if_missing(id) leaves the whole ERD as it was when id
\* is a key of entities and inserts the bare entity of that id otherwise;
\* add_relationship leaves the entities of the endpoints that were stored
\* as they were.
C8_CreateIfMissingNeverOverwrites ==
    /\ call.op = "create_entity_if_missing" =>
          IF call.arg \in DOMAIN old_erd.entities
          THEN erd = old_erd
          ELSE erd = [old_erd EXCEPT
                        !.entities = HashMap_insert(
                            @, call.arg, Entity_new(EntityId_as_str(call.arg)))]
    /\ ErdRelationshipAdded =>
          \A id \in {call.arg.left_id, call.arg.right_id}
                        \cap DOMAIN old_erd.entities :
              erd.entities[id] = old_erd.entities[id]

\* C8 witness: a relationship was added between two stored entities, one
\* with an alias and one with attributes.
C8_Witness ==
    /\ ErdRelationshipAdded
    /\ call.arg.left_id \in DOMAIN old_erd.entities
    /\ call.arg.right_id \in DOMAIN old_erd.entities
    /\ old_erd.entities[call.arg.left_id].alias # None
    /\ old_erd.entities[call.arg.right_id].attributes # <<>>
    /\ erd.entities[call.arg.left_id].alias # None
    /\ erd.entities[call.arg.right_id].attributes # <<>>

\* C10: an entity with at least one attribute renders as its id (and its
\* alias in brackets and quotes) followed by " {", then one line per
\* attribute, in insertion order, that contains the attribute's rendering,
\* then "}".
C10_EntityRendersAttributeBlock ==
    \A id \in DOMAIN erd.entities :
        LET entity == erd.entities[id]
            n == Len(entity.attributes)
            name == IF entity.alias = None
                    THEN entity.id
                    ELSE entity.id \o "[\"" \o entity.alias[1] \o "\"]"
            out == str_lines(Entity_fmt(entity))
        IN  n > 0 =>
              /\ Len(out) = n + 2
              /\ out[1] = name \o " {"
              /\ \A i \in 1..n :
                    contains(out[i + 1], Attribute_fmt(entity.attributes[i]))
              /\ out[n + 2] = "}"

(***************************************************************************)
(* Properties of the RequirementDiagram container.                         *)
(***************************************************************************)
ReqRelationshipAdded == call.op = "add_relationship"

\* C2: every relationship stored in RequirementDiagram.relationships has
\* its source and its target among the keys of elements or requirements,
\* whatever sequence of add_element, add_requirement and add_relationship
\* calls (failed ones included) built the diagram.
C2_ReqRelationshipsResolve ==
    \A i \in 1..Len(diagram.relationships) :
        /\ found_in_diagram(diagram, diagram.relationships[i].source)
        /\ found_in_diagram(diagram, diagram.relationships[i].target)

\* C2 witness: an add_relationship call failed on a diagram that stores a
\* relationship from an element to a requirement.
C2_Witness ==
    /\ ReqRelationshipAdded
    /\ call.panic # None
    /\ Len(diagram.relationships) = 1
    /\ diagram.relationships[1].source \in DOMAIN diagram.elements
    /\ diagram.relationships[1].target \in DOMAIN diagram.requirements

\* C3: add_relationship panics whenever the source or the target is a key
\* of neither elements nor requirements, and the failed call leaves
\* relationships exactly as it was.
C3_MissingEndpointPanics ==
    ReqRelationshipAdded =>
        /\ (\/ ~found_in_diagram(old_diagram, call.arg.source)
            \/ ~found_in_diagram(old_diagram, call.arg.target))
                => call.panic # None
        /\ call.panic # None
                => diagram.relationships = old_diagram.relationships

\* C3 witness: the call failed for its target alone, on a diagram that
\* already stored a relationship.
C3_Witness ==
    /\ ReqRelationshipAdded
    /\ call.panic # None
    /\ found_in_diagram(old_diagram, call.arg.source)
    /\ ~found_in_diagram(old_diagram, call.arg.target)
    /\ Len(old_diagram.relationships) = 1
    /\ Len(diagram.relationships) = 1

\* C9: add_relationship leaves elements and requirements as they were,
\* whether it succeeds or fails: a missing endpoint is not created.
C9_AddRelationshipKeepsItems ==
    ReqRelationshipAdded =>
        /\ diagram.elements = old_diagram.elements
        /\ diagram.requirements = old_diagram.requirements

\* C9 witness: the call failed for a missing source, which is still
\* missing after it, on a diagram that holds an element.
C9_Witness ==
    /\ ReqRelationshipAdded
    /\ call.panic # None
    /\ ~found_in_diagram(old_diagram, call.arg.source)
    /\ ~found_in_diagram(diagram, call.arg.source)
    /\ DOMAIN diagram.elements # {}

(***************************************************************************)
(* The builder chains: a value is constructed, decorated by chained calls  *)
(* and rendered with to_string.  calls holds the chain, the constructor    *)
(* first; MaxCalls bounds its length.                                      *)
(***************************************************************************)
Call(name, arg) == [name |-> name, arg |-> arg]

\* The argument of the last call of the chain with the given name, if any.
LastArg(name) ==
    LET at == {i \in 1..Len(calls) : calls[i].name = name}
    IN  IF at = {}
        THEN None
        ELSE Some(calls[CHOOSE i \in at : \A j \in at : j <= i].arg)

WasCalled(name) == \E i \in 1..Len(calls) : calls[i].name = name

AliasPool == {"album_table", "my album"}

AttributePool ==
    {Attribute_new("str", "title"),
     as_primary_key(Attribute_new("int", "albumId"))}

EntityInit ==
    /\ NewContainers
    /\ \E id \in IdPool :
          /\ item = Entity_new(id)
          /\ calls = <<Call("new", id)>>
    /\ output = None

EntityWithAlias ==
    /\ Len(calls) < MaxCalls
    /\ \E alias \in AliasPool :
          /\ item' = with_alias(item, alias)
          /\ calls' = Append(calls, Call("with_alias", alias))
    /\ output' = None
    /\ UNCHANGED containers

EntityAddAttribute ==
    /\ Len(calls) < MaxCalls
    /\ \E attribute \in AttributePool :
          /\ item' = add_attribute(item, attribute)
          /\ calls' = Append(calls, Call("add_attribute", attribute))
    /\ output' = None
    /\ UNCHANGED containers

EntityToString ==
    /\ output' = Some(Entity_fmt(item))
    /\ UNCHANGED <<item, calls, containers>>

EntityNext ==
    \/ EntityWithAlias
    \/ EntityAddAttribute
    \/ EntityToString

\* The construction and the rendering of an Entity.
EntitySpec == EntityInit /\ [][EntityNext]_vars

\* C11: an entity without attributes renders as its id when with_alias was
\* not called and as the id followed by ["<alias>"], with the alias of the
\* last with_alias call, when it was: one line, no brace, no added space.
C11_EntityWithoutAttributesRendersName ==
    (output # None /\ ~WasCalled("add_attribute")) =>
        /\ output[1] = IF WasCalled("with_alias")
                       THEN calls[1].arg \o "[\"" \o LastArg("with_alias")[1] \o "\"]"
                       ELSE calls[1].arg
        /\ item.alias = LastArg("with_alias")

\* C11 witness: with_alias was called twice with different aliases on an
\* entity without attributes, and the rendering shows the second alias.
C11_Witness ==
    /\ output # None
    /\ Len(calls) = 3
    /\ calls[2].name = "with_alias"
    /\ calls[3].name = "with_alias"
    /\ calls[2].arg # calls[3].arg
    /\ output[1] = calls[1].arg \o "[\"" \o calls[3].arg \o "\"]"

(***************************************************************************)
(* The construction and the rendering of an Attribute.                     *)
(***************************************************************************)
AttributeNamePool == {<<"string", "title">>, <<"int", "albumId">>}

CommentPool == {"comment about album", ""}

AttributeInit ==
    /\ NewContainers
    /\ \E a \in AttributeNamePool :
          /\ item = Attribute_new(a[1], a[2])
          /\ calls = <<Call("new", a)>>
    /\ output = None

AttributeAsPrimaryKey ==
    /\ Len(calls) < MaxCalls
    /\ item' = as_primary_key(item)
    /\ calls' = Append(calls, Call("as_primary_key", None))
    /\ output' = None
    /\ UNCHANGED containers

AttributeAsForeignKey ==
    /\ Len(calls) < MaxCalls
    /\ item' = as_foreign_key(item)
    /\ calls' = Append(calls, Call("as_foreign_key", None))
    /\ output' = None
    /\ UNCHANGED containers

AttributeAsUnique ==
    /\ Len(calls) < MaxCalls
    /\ item' = as_unique(item)
    /\ calls' = Append(calls, Call("as_unique", None))
    /\ output' = None
    /\ UNCHANGED containers

AttributeWithComment ==
    /\ Len(calls) < MaxCalls
    /\ \E comment \in CommentPool :
          /\ item' = with_comment(item, comment)
          /\ calls' = Append(calls, Call("with_comment", comment))
    /\ output' = None
    /\ UNCHANGED containers

AttributeToString ==
    /\ output' = Some(Attribute_fmt(item))
    /\ UNCHANGED <<item, calls, containers>>

AttributeNext ==
    \/ AttributeAsPrimaryKey
    \/ AttributeAsForeignKey
    \/ AttributeAsUnique
    \/ AttributeWithComment
    \/ AttributeToString

AttributeSpec == AttributeInit /\ [][AttributeNext]_vars

\* The strings of a sequence, joined with a separator.
RECURSIVE Join(_, _)
Join(strings, separator) ==
    IF strings = <<>> THEN ""
    ELSE IF Len(strings) = 1 THEN strings[1]
    ELSE strings[1] \o separator \o Join(Tail(strings), separator)

\* The abbreviations of the key constraints that were set by the chain, in
\* the order PK, FK, UK.
KeyAbbreviations ==
    (IF WasCalled("as_primary_key") THEN <<"PK">> ELSE <<>>)
    \o (IF WasCalled("as_foreign_key") THEN <<"FK">> ELSE <<>>)
    \o (IF WasCalled("as_unique") THEN <<"UK">> ELSE <<>>)

\* C12: an attribute renders as "<type> <name>", then, only if a key
\* constraint was set, a space and the abbreviations of the set constraints
\* in the order PK, FK, UK joined by ", " whatever the order of the calls,
\* then, only if a comment was set, a space and the comment in double quotes.
C12_AttributeRendering ==
    output # None =>
        output[1] =
            calls[1].arg[1] \o " " \o calls[1].arg[2]
            \o (IF KeyAbbreviations = <<>>
                THEN ""
                ELSE " " \o Join(KeyAbbreviations, ", "))
            \o (IF WasCalled("with_comment")
                THEN " \"" \o LastArg("with_comment")[1] \o "\""
                ELSE "")

\* C12 witness: as_unique, as_foreign_key and as_primary_key were called in
\* this order, then with_comment, and the rendering lists PK, FK, UK.
C12_Witness ==
    /\ output # None
    /\ Len(calls) = 5
    /\ calls[2].name = "as_unique"
    /\ calls[3].name = "as_foreign_key"
    /\ calls[4].name = "as_primary_key"
    /\ calls[5].name = "with_comment"
    /\ output[1] = calls[1].arg[1] \o " " \o calls[1].arg[2]
                      \o " PK, FK, UK \"" \o calls[5].arg \o "\""

(***************************************************************************)
(* The construction and the rendering of an ERD Relationship.              *)
(***************************************************************************)
LabelPool == {"includes", ""}

ErdRelationshipInit ==
    /\ NewContainers
    /\ \E l \in IdPool, r \in IdPool,
          lc \in Cardinality_all, rc \in Cardinality_all :
          /\ item = erd_Relationship_new(l, r, lc, rc)
          /\ calls = <<Call("new", <<l, r, lc, rc>>)>>
    /\ output = None

ErdRelationshipAsNonIdentifying ==
    /\ Len(calls) < MaxCalls
    /\ item' = as_non_identifying(item)
    /\ calls' = Append(calls, Call("as_non_identifying", None))
    /\ output' = None
    /\ UNCHANGED containers

ErdRelationshipWithLabel ==
    /\ Len(calls) < MaxCalls
    /\ \E label \in LabelPool :
          /\ item' = with_label(item, label)
          /\ calls' = Append(calls, Call("with_label", label))
    /\ output' = None
    /\ UNCHANGED containers

ErdRelationshipToString ==
    /\ output' = Some(erd_Relationship_fmt(item))
    /\ UNCHANGED <<item, calls, containers>>

ErdRelationshipNext ==
    \/ ErdRelationshipAsNonIdentifying
    \/ ErdRelationshipWithLabel
    \/ ErdRelationshipToString

ErdRelationshipSpec == ErdRelationshipInit /\ [][ErdRelationshipNext]_vars

\* The symbol table of the cardinalities, by side.
LeftSymbol(cardinality) ==
    CASE cardinality = "ZeroOrOne" -> "|o"
      [] cardinality = "ExactlyOne" -> "||"
      [] cardinality = "ZeroOrMore" -> "}o"
      [] cardinality = "OneOrMore" -> "}|"

RightSymbol(cardinality) ==
    CASE cardinality = "ZeroOrOne" -> "o|"
      [] cardinality = "ExactlyOne" -> "||"
      [] cardinality = "ZeroOrMore" -> "o{"
      [] cardinality = "OneOrMore" -> "|{"

\* C13: for every pair of cardinalities a relationship renders as
\* "LEFT_ID <left symbol><line><right symbol> RIGHT_ID", the line being --
\* unless as_non_identifying was called and .. if it was, followed by
\* ` : "<label>"` exactly when with_label was called.
C13_ErdRelationshipRendering ==
    output # None =>
        LET new == calls[1].arg
        IN  output[1] =
                new[1] \o " " \o LeftSymbol(new[3])
                \o (IF WasCalled("as_non_identifying") THEN ".." ELSE "--")
                \o RightSymbol(new[4]) \o " " \o new[2]
                \o (IF WasCalled("with_label")
                    THEN " : \"" \o LastArg("with_label")[1] \o "\""
                    ELSE "")

\* C13 witness: ALBUM to SONG, ZeroOrMore on both sides, made
\* non-identifying and labelled.
C13_Witness ==
    /\ output = Some("ALBUM }o..o{ SONG : \"includes\"")
    /\ calls[1].arg = <<"ALBUM", "SONG", "ZeroOrMore", "ZeroOrMore">>
    /\ WasCalled("as_non_identifying")

(***************************************************************************)
(* Rendering of an ERD: ERD::new() followed by with_entity and             *)
(* with_relationship calls, then to_string().  item is the diagram, output *)
(* the last text returned.                                                 *)
(***************************************************************************)
RenderRelationshipInputs ==
    {erd_Relationship_new("ALBUM", "SONG", "ExactlyOne", "OneOrMore"),
     with_label(
        erd_Relationship_new("ALBUM", "SONG", "ExactlyOne", "OneOrMore"),
        "includes"),
     as_non_identifying(
        erd_Relationship_new("SONG", "album", "ZeroOrOne", "ZeroOrMore")),
     erd_Relationship_new("album", "album", "ZeroOrMore", "ExactlyOne")}

ErdRenderInit ==
    /\ NewContainers
    /\ item = ERD_new
    /\ calls = <<>>
    /\ output = None

RenderWithEntity ==
    \E entity \in EntityInputs :
        /\ item' = ERD_with_entity(item, entity)
        /\ output' = None
        /\ UNCHANGED <<containers, calls>>

RenderWithRelationship ==
    /\ Len(item.relationships) < MaxRelationships
    /\ \E relationship \in RenderRelationshipInputs :
        /\ item' = ERD_with_relationship(item, relationship)
        /\ output' = None
        /\ UNCHANGED <<containers, calls>>

\* to_string(): entities.values() yields the entities in any order.
RenderToString ==
    \E order \in IterationOrders(item.entities) :
        /\ output' = Some(ERD_fmt(item, order))
        /\ UNCHANGED <<containers, item, calls>>

ErdRenderNext ==
    \/ RenderWithEntity
    \/ RenderWithRelationship
    \/ RenderToString

ErdRenderSpec == ErdRenderInit /\ [][ErdRenderNext]_vars

\* The line of a relationship with the empty quoted label.
EmptyLabelLine(relationship) ==
    relationship.left_id \o " "
        \o LeftSymbol(relationship.left_cardinality) \o "--"
        \o RightSymbol(relationship.right_cardinality) \o " "
        \o relationship.right_id \o " : \"\""

\* C14: in the text of an ERD, an identifying relationship added without a
\* label is rendered, on a line of its own, as
\* `<LEFT> <sym>--<sym> <RIGHT> : ""`, followed by a line break.
C14_UnlabelledRelationshipHasEmptyLabel ==
    output # None =>
        \A i \in DOMAIN item.relationships :
            LET relationship == item.relationships[i]
            IN  (relationship.is_identifying /\ relationship.label = None) =>
                    contains(output[1],
                             "\n    " \o EmptyLabelLine(relationship) \o "\n")

\* The positions of a line in a sequence of lines.
Positions(lines, line) == {i \in DOMAIN lines : lines[i] = line}

\* C15: the text of an ERD starts with the line erDiagram; the banner lines
\* of the Entities section occur (once each, start before end) exactly when
\* there is an entity, those of the Relationships section exactly when
\* there is a relationship, the Entities section ends before the
\* Relationships section starts, every line after the first starts with 4
\* spaces, and a diagram without entities and relationships renders as
\* exactly erDiagram.
C15_ErdRendering ==
    output # None =>
        LET erd_str == output[1]
            lines == str_lines(erd_str)
            entities_start == Positions(lines, "    %% Entities start")
            entities_end == Positions(lines, "    %% Entities end")
            relationships_start ==
                Positions(lines, "    %% Relationships start")
            relationships_end == Positions(lines, "    %% Relationships end")
            has_entities == DOMAIN item.entities # {}
            has_relationships == item.relationships # <<>>
            One(has, positions) ==
                Cardinality(positions) = IF has THEN 1 ELSE 0
        IN  /\ lines[1] = "erDiagram"
            /\ One(has_entities, entities_start)
            /\ One(has_entities, entities_end)
            /\ One(has_relationships, relationships_start)
            /\ One(has_relationships, relationships_end)
            /\ \A i \in entities_start : \A j \in entities_end : i < j
            /\ \A i \in relationships_start :
                    \A j \in relationships_end : i < j
            /\ \A i \in entities_end : \A j \in relationships_start : i < j
            /\ \A i \in entities_start : i = 2
            /\ \A i \in relationships_end : i = Len(lines)
            /\ \A i \in 2..Len(lines) :
                    Len(lines[i]) >= 4 /\ SubSeq(lines[i], 1, 4) = "    "
            /\ (~has_entities /\ ~has_relationships) => erd_str = "erDiagram"

C15_Witness ==
    /\ output # None
    /\ EntityCount(item) = 3
    /\ Len(item.relationships) = 2
    /\ \E id \in DOMAIN item.entities : item.entities[id].alias # None
    /\ Len(str_lines(output[1])) = 10


(***************************************************************************)
(* Rendering of a RequirementDiagram: RequirementDiagram::new() followed   *)
(* by with_element, with_requirement and with_relationship calls, then     *)
(* to_string().  item is the diagram, output the last text returned.       *)
(***************************************************************************)
ReqRenderRelationshipInputs ==
    {req_Relationship_new("foo", "Foo", "Copies"),
     req_Relationship_new("Foo", "foo", "Satisfies"),
     req_Relationship_new("foo", "foo", "Traces")}

ReqRenderInit ==
    /\ NewContainers
    /\ item = RequirementDiagram_new
    /\ calls = <<>>
    /\ output = None

ReqRenderWithElement ==
    \E element \in ElementInputs :
        /\ item' = RequirementDiagram_with_element(item, element)
        /\ output' = None
        /\ UNCHANGED <<containers, calls>>

ReqRenderWithRequirement ==
    \E req \in RequirementInputs :
        /\ item' = RequirementDiagram_with_requirement(item, req)
        /\ output' = None
        /\ UNCHANGED <<containers, calls>>

\* A call whose assert! fails ends the chain: the diagram was moved into
\* the call and no diagram is returned.
ReqRenderWithRelationship ==
    /\ Len(item.relationships) < MaxRelationships
    /\ \E relationship \in ReqRenderRelationshipInputs :
        LET result == RequirementDiagram_with_relationship(item, relationship)
        IN  /\ result.panic = None
            /\ item' = result.diagram
            /\ output' = None
            /\ UNCHANGED <<containers, calls>>

\* to_string(): elements.values() and requirements.values() yield their
\* values in any order.
ReqRenderToString ==
    \E element_order \in IterationOrders(item.elements),
       requirement_order \in IterationOrders(item.requirements) :
        /\ output' = Some(RequirementDiagram_fmt(item, element_order,
                                                 requirement_order))
        /\ UNCHANGED <<containers, item, calls>>

ReqRenderNext ==
    \/ ReqRenderWithElement
    \/ ReqRenderWithRequirement
    \/ ReqRenderWithRelationship
    \/ ReqRenderToString

ReqRenderSpec == ReqRenderInit /\ [][ReqRenderNext]_vars

\* The sections of a text, in the order of their start lines: the titles
\* T of the lines `    %% T start`.
SectionTitles == <<"Elements", "Requirements", "Relationships">>

\* C16: the text of a RequirementDiagram starts with the line
\* requirementDiagram; the banner lines of the Elements, Requirements and
\* Relationships sections occur (once each, start before end) exactly when
\* the collection is non-empty, a section ends before any later section
\* starts, the text ends with the end line of its last section, and a
\* diagram with three empty collections renders as exactly
\* requirementDiagram.
C16_RequirementDiagramRendering ==
    output # None =>
        LET out_str == output[1]
            lines == str_lines(out_str)
            Start(k) ==
                Positions(lines, "    %% " \o SectionTitles[k] \o " start")
            End(k) ==
                Positions(lines, "    %% " \o SectionTitles[k] \o " end")
            Has(k) ==
                CASE k = 1 -> DOMAIN item.elements # {}
                  [] k = 2 -> DOMAIN item.requirements # {}
                  [] k = 3 -> item.relationships # <<>>
            banners == UNION {Start(k) \cup End(k) : k \in 1..3}
        IN  /\ lines[1] = "requirementDiagram"
            /\ \A k \in 1..3 :
                /\ Cardinality(Start(k)) = IF Has(k) THEN 1 ELSE 0
                /\ Cardinality(End(k)) = IF Has(k) THEN 1 ELSE 0
                /\ \A i \in Start(k) : \A j \in End(k) : i < j
            /\ \A k \in 1..3 : \A l \in (k + 1)..3 :
                \A i \in End(k) : \A j \in Start(l) : i < j
            /\ banners # {} => 2 \in banners /\ Len(lines) \in banners
            /\ banners = {} => out_str = "requirementDiagram"

C16_Witness ==
    /\ output # None
    /\ DOMAIN item.elements = {}
    /\ DOMAIN item.requirements = {"foo", "Foo"}
    /\ Len(item.relationships) = 2
    /\ contains(output[1], "requirementDiagram\n    %% Requirements start\n")
    /\ contains(output[1], "\n    %% Relationships end")

(***************************************************************************)
(* Requirement: Requirement::new followed by with_risk, with_text and      *)
(* with_verify_method calls in any order, then to_string().                *)
(***************************************************************************)
RiskPool == {"Low", "High"}

TextPool == {"Foo bar"}

VerifyMethodPool == {"Demo", "Analysis"}

RequirementInit ==
    /\ NewContainers
    /\ \E kind \in RequirementType_all :
          /\ item = Requirement_new(kind, "milestone", "1.1.1")
          /\ calls = <<Call("new", <<kind, "milestone", "1.1.1">>)>>
    /\ output = None

RequirementWithRisk ==
    /\ Len(calls) < MaxCalls
    /\ \E risk \in RiskPool :
          /\ item' = with_risk(item, risk)
          /\ calls' = Append(calls, Call("with_risk", risk))
    /\ output' = None
    /\ UNCHANGED containers

RequirementWithText ==
    /\ Len(calls) < MaxCalls
    /\ \E t \in TextPool :
          /\ item' = with_text(item, t)
          /\ calls' = Append(calls, Call("with_text", t))
    /\ output' = None
    /\ UNCHANGED containers

RequirementWithVerifyMethod ==
    /\ Len(calls) < MaxCalls
    /\ \E method \in VerifyMethodPool :
          /\ item' = with_verify_method(item, method)
          /\ calls' = Append(calls, Call("with_verify_method", method))
    /\ output' = None
    /\ UNCHANGED containers

RequirementToString ==
    /\ output' = Some(Requirement_fmt(item))
    /\ UNCHANGED <<item, calls, containers>>

RequirementNext ==
    \/ RequirementWithRisk
    \/ RequirementWithText
    \/ RequirementWithVerifyMethod
    \/ RequirementToString

RequirementSpec == RequirementInit /\ [][RequirementNext]_vars

\* The word a verify method is written with: the name of the variant,
\* except Demo.
MethodWord(method) == IF method = "Demo" THEN "Demonstration" ELSE method

\* The lines of the optional fields the chain has set, in the order risk,
\* text, verify method; the risk is written with the name of its variant.
OptionalFieldLines ==
    (IF WasCalled("with_risk")
        THEN <<"    risk: " \o LastArg("with_risk")[1]>> ELSE <<>>)
    \o (IF WasCalled("with_text")
        THEN <<"    text: \"" \o LastArg("with_text")[1] \o "\"">> ELSE <<>>)
    \o (IF WasCalled("with_verify_method")
        THEN <<"    verifymethod: "
                    \o MethodWord(LastArg("with_verify_method")[1])>>
        ELSE <<>>)

\* C17: a requirement renders as `<kind keyword> <name> {`, the line
\* `    id: <id>`, the lines of the optional fields that were set, in the
\* order risk, text, verifymethod whatever the order of the with_ calls,
\* and `}` on its own line; the keyword of Default is requirement and the
\* word of Demo is Demonstration.
C17_RequirementRendering ==
    output # None =>
        LET new == calls[1].arg
            kind == new[1]
            name == new[2]
            id == new[3]
        IN  /\ output[1] =
                Join(<<RequirementType_fmt(kind) \o " " \o name \o " {",
                       "    id: " \o id>>
                     \o OptionalFieldLines
                     \o <<"}">>, "\n")
            /\ kind = "Default" =>
                SubSeq(output[1], 1, 12) = "requirement "

C17_Witness ==
    /\ Len(calls) = 4
    /\ calls[2].name = "with_verify_method"
    /\ calls[3].name = "with_text"
    /\ calls[4].name = "with_risk"
    /\ output = Some("functionalRequirement milestone {\n    id: 1.1.1\n"
                     \o "    risk: Low\n    text: \"Foo bar\"\n"
                     \o "    verifymethod: Demonstration\n}")

(***************************************************************************)
(* Relationship of a requirement diagram: Relationship::new, then          *)
(* to_string().                                                            *)
(***************************************************************************)
EndpointPool == {"Foo", "Bar", "foo", "my item"}

ReqRelationshipInit ==
    /\ NewContainers
    /\ \E source \in EndpointPool, target \in EndpointPool,
          kind \in RelationshipType_all :
          /\ item = req_Relationship_new(source, target, kind)
          /\ calls = <<Call("new", <<source, target, kind>>)>>
    /\ output = None

ReqRelationshipToString ==
    /\ output' = Some(req_Relationship_fmt(item))
    /\ UNCHANGED <<item, calls, containers>>

ReqRelationshipNext == ReqRelationshipToString

ReqRelationshipSpec == ReqRelationshipInit /\ [][ReqRelationshipNext]_vars

\* The lower-case word of each RelationshipType.
KindWord ==
    [Contains |-> "contains", Copies |-> "copies", Derives |-> "derives",
     Satisfies |-> "satisfies", Verifies |-> "verifies",
     Refines |-> "refines", Traces |-> "traces"]

\* C18: a relationship renders as `<source> - <kind-word> -> <target>`,
\* source and target as they were given to new and the kind word the
\* lower-case word of the kind; the words written for two different kinds
\* differ.
C18_ReqRelationshipRendering ==
    output # None =>
        LET new == calls[1].arg
            source == new[1]
            target == new[2]
            kind == new[3]
        IN  /\ output[1] = source \o " - " \o KindWord[kind] \o " -> " \o target
            /\ \A other \in RelationshipType_all \ {kind} :
                output[1] # req_Relationship_fmt(
                                req_Relationship_new(source, target, other))

C18_Witness ==
    /\ calls = <<Call("new", <<"Foo", "Bar", "Contains">>)>>
    /\ output = Some("Foo - contains -> Bar")

(***************************************************************************)
(* Indent::indent applied to a text.  item is the text and the size,       *)
(* output the text returned.                                               *)
(***************************************************************************)
MaxTextLen == 3

MaxIndent == 2

TextAlphabet == {"a", " ", "\n"}

\* The texts of at most n characters of the alphabet.
RECURSIVE Texts(_)
Texts(n) ==
    IF n = 0 THEN {""}
    ELSE Texts(n - 1) \cup {t \o c : t \in Texts(n - 1), c \in TextAlphabet}

IndentInit ==
    /\ NewContainers
    /\ \E t \in Texts(MaxTextLen), size \in 0..MaxIndent :
          /\ item = [text |-> t, size |-> size]
          /\ calls = <<Call("indent", <<t, size>>)>>
    /\ output = None

IndentToString ==
    /\ output' = Some(indent(item.text, item.size))
    /\ UNCHANGED <<item, calls, containers>>

IndentNext == IndentToString

IndentSpec == IndentInit /\ [][IndentNext]_vars

\* C19: for every text and every size, the text returned by indent has as
\* many lines as the text given, and each of its lines is the line of the
\* text given at the same position with size spaces before it.
C19_IndentPreservesLines ==
    output # None =>
        LET given == str_lines(calls[1].arg[1])
            size == calls[1].arg[2]
            returned == str_lines(output[1])
        IN  /\ Len(returned) = Len(given)
            /\ \A i \in 1..Len(given) :
                    returned[i] = str_repeat(" ", size) \o given[i]

(***************************************************************************)
(* Elements and requirements of a RequirementDiagram (ReqSpec)             *)
(***************************************************************************)
\* C20: get_element_by_name(n) returns the element most recently passed to
\* add_element / with_element with the name n, and None if there was none;
\* get_requirement_by_name(n) likewise for add_requirement /
\* with_requirement; the names are compared as they are, so foo and Foo
\* are two keys.
C20_LastWriteWinsPerName ==
    \A name \in NamePool :
        /\ RequirementDiagram_get_element_by_name(diagram, name)
                = HashMap_get(log, <<"element", name>>)
        /\ RequirementDiagram_get_requirement_by_name(diagram, name)
                = HashMap_get(log, <<"requirement", name>>)

C20_Witness ==
    /\ call.op = "add_element"
    /\ call.arg.name = "foo"
    /\ RequirementDiagram_get_element_by_name(old_diagram, "foo") # None
    /\ RequirementDiagram_get_element_by_name(old_diagram, "foo")
            # Some(call.arg)
    /\ RequirementDiagram_get_element_by_name(diagram, "foo") = Some(call.arg)
    /\ RequirementDiagram_get_element_by_name(diagram, "Foo") # None
    /\ RequirementDiagram_get_element_by_name(diagram, "Foo")[1].docref
            # call.arg.docref
    /\ RequirementDiagram_get_requirement_by_name(diagram, "foo") = None
    /\ RequirementDiagram_get_requirement_by_name(diagram, "Foo") # None

(***************************************************************************)
(* The failure message of RequirementDiagram::add_relationship (ReqSpec)   *)
(***************************************************************************)
\* C21: a failed add_relationship has the message
\* `<id> isn't found in the list of elements or requirements`, where <id>
\* is the source when the source is missing (also when the target is
\* missing too) and the target when only the target is missing; a call
\* with both endpoints present does not fail.
C21_FailureMessageNamesMissingId ==
    ReqRelationshipAdded =>
        LET source == call.arg.source
            target == call.arg.target
            Missing(name) ==
                /\ name \notin DOMAIN old_diagram.elements
                /\ name \notin DOMAIN old_diagram.requirements
            Message(name) ==
                name \o " isn't found in the list of elements or requirements"
        IN  call.panic =
                IF Missing(source) THEN Some(Message(source))
                ELSE IF Missing(target) THEN Some(Message(target))
                ELSE None

\* C21 witness: both endpoints are missing, they differ, and the message
\* names the source.
C21_Witness ==
    /\ ReqRelationshipAdded
    /\ call.arg.source = "Foo"
    /\ call.arg.target = "foo"
    /\ ~found_in_diagram(old_diagram, "Foo")
    /\ ~found_in_diagram(old_diagram, "foo")
    /\ call.panic =
        Some("Foo isn't found in the list of elements or requirements")

(***************************************************************************)
(* append_items applied to a buffer, a sequence of renderings, a title     *)
(* and a size.  item holds the arguments, output the text returned.        *)
(***************************************************************************)
MaxItems == 2

BufferPool == {"erDiagram", "", "requirementDiagram\n    %% Elements end"}

\* Renderings of the items the two containers pass to append_items.
ItemPool ==
    {Entity_fmt(Entity_new("ALBUM")),
     Element_fmt(Element_new("foo", "brief")),
     Requirement_fmt(
        with_risk(Requirement_new("Default", "milestone", "1.1.1"), "Low")),
     req_Relationship_fmt(req_Relationship_new("foo", "milestone", "Copies"))}

TitlePool == {"Entities", "Requirements"}

\* The sequences of at most n items of the pool.
RECURSIVE ItemSequences(_)
ItemSequences(n) ==
    IF n = 0 THEN {<<>>}
    ELSE ItemSequences(n - 1)
            \cup {Append(items, i) : items \in ItemSequences(n - 1),
                                     i \in ItemPool}

AppendItemsInit ==
    /\ NewContainers
    /\ \E buffer \in BufferPool, items \in ItemSequences(MaxItems),
          title \in TitlePool, size \in 0..MaxIndent :
          /\ item = [curr_str |-> buffer, items |-> items,
                     note |-> title, indent |-> size]
          /\ calls = <<Call("append_items", <<buffer, items, title, size>>)>>
    /\ output = None

AppendItemsToString ==
    /\ output' = Some(append_items(item.curr_str, item.items, item.note,
                                   item.indent))
    /\ UNCHANGED <<item, calls, containers>>

AppendItemsNext == AppendItemsToString

AppendItemsSpec == AppendItemsInit /\ [][AppendItemsNext]_vars

\* The first n characters of a run of spaces.
Spaces(n) == SubSeq("                ", 1, n)

\* The pieces of a text between its line feeds.
RECURSIVE SplitAtLineFeeds(_)
SplitAtLineFeeds(s) ==
    LET feeds == {i \in 1..Len(s) : SubSeq(s, i, i) = "\n"}
    IN  IF feeds = {} THEN <<s>>
        ELSE LET i == CHOOSE i \in feeds : \A j \in feeds : i <= j
             IN  <<SubSeq(s, 1, i - 1)>>
                    \o SplitAtLineFeeds(SubSeq(s, i + 1, Len(s)))

\* C22: the text returned is the buffer, then, each one after a line
\* break: n spaces and `%% <title> start`, every item in order with n
\* spaces before each of its lines, n spaces and `%% <title> end`; nothing
\* follows the end banner.
C22_AppendItemsLayout ==
    output # None =>
        LET buffer == calls[1].arg[1]
            items == calls[1].arg[2]
            title == calls[1].arg[3]
            n == calls[1].arg[4]
            Indented(text) ==
                LET pieces == SplitAtLineFeeds(text)
                IN  Join([i \in DOMAIN pieces |-> Spaces(n) \o pieces[i]],
                         "\n")
        IN  output[1] =
                buffer \o "\n"
                \o Join(<<Spaces(n) \o "%% " \o title \o " start">>
                        \o [i \in DOMAIN items |-> Indented(items[i])]
                        \o <<Spaces(n) \o "%% " \o title \o " end">>,
                        "\n")

\* C22 witness: a multi-line requirement after a one-line item, size 2,
\* appended to a buffer that has a section already.
C22_Witness ==
    /\ calls[1].arg[1] = "requirementDiagram\n    %% Elements end"
    /\ calls[1].arg[4] = 2
    /\ output = Some("requirementDiagram\n    %% Elements end"
                     \o "\n  %% Requirements start"
                     \o "\n  ALBUM"
                     \o "\n  requirement milestone {"
                     \o "\n      id: 1.1.1"
                     \o "\n      risk: Low"
                     \o "\n  }"
                     \o "\n  %% Requirements end")

(***************************************************************************)
(* Further properties of the ERD container (ErdSpec)                       *)
(***************************************************************************)
\* C23: add_relationship increases the number of entities by the number of
\* distinct endpoint ids that were absent before the call (0, 1 or 2); a
\* self-relationship on an absent id adds one entity.
C23_EntitiesGrowByAbsentEndpoints ==
    ErdRelationshipAdded =>
        LET endpoints == {call.arg.left_id, call.arg.right_id}
            absent == endpoints \ DOMAIN old_erd.entities
        IN  /\ EntityCount(erd) = EntityCount(old_erd) + Cardinality(absent)
            /\ Cardinality(absent) \in {0, 1, 2}

\* C23 witness: a self-relationship on an absent id was added to an ERD
\* holding one entity, and one entity was created.
C23_Witness ==
    /\ ErdRelationshipAdded
    /\ call.arg.left_id = call.arg.right_id
    /\ call.arg.left_id \notin DOMAIN old_erd.entities
    /\ EntityCount(old_erd) = 1
    /\ EntityCount(erd) = 2
    /\ erd.relationships[Len(erd.relationships)] = call.arg

\* The case of C23 with one endpoint stored and the other absent.
C23_OneAbsentReached ==
    /\ ErdRelationshipAdded
    /\ call.arg.left_id \in DOMAIN old_erd.entities
    /\ call.arg.right_id \notin DOMAIN old_erd.entities
    /\ EntityCount(erd) = EntityCount(old_erd) + 1

(***************************************************************************)
(* Properties of both containers.  The two containers share no state; a    *)
(* behaviour of ContainerSpec builds one of them, either an ERD or a       *)
(* RequirementDiagram, while the other stays as new() left it.             *)
(***************************************************************************)
ContainerNext ==
    \/ /\ diagram = RequirementDiagram_new
       /\ ErdNext
    \/ /\ erd = ERD_new
       /\ ReqNext

ContainerSpec == Init /\ [][ContainerNext]_vars

\* C24: every key of entities maps to an entity whose id is the key, every
\* key of elements to an element whose name is the key, and every key of
\* requirements to a requirement whose name is the key.
C24_KeysAreIdentities ==
    /\ \A id \in DOMAIN erd.entities :
            EntityId_from(erd.entities[id].id) = id
    /\ \A name \in DOMAIN diagram.elements :
            diagram.elements[name].name = name
    /\ \A name \in DOMAIN diagram.requirements :
            diagram.requirements[name].name = name

\* C24 witness (ERD): three entities are stored, two of them under ids
\* that differ only in case, one created by add_relationship.
C24_Witness ==
    /\ ErdRelationshipAdded
    /\ DOMAIN erd.entities = {"ALBUM", "album", "SONG"}
    /\ "album" \notin DOMAIN old_erd.entities
    /\ erd.entities["ALBUM"].alias # None

\* The case of C24 for a RequirementDiagram: an element and a requirement
\* are stored under each of the two names.
C24_DiagramReached ==
    /\ DOMAIN diagram.elements = {"foo", "Foo"}
    /\ DOMAIN diagram.requirements = {"foo", "Foo"}

IsPrefix(s, t) == Len(s) <= Len(t) /\ SubSeq(t, 1, Len(s)) = s

\* A step that leaves the relationships of both containers as they are.
RelationshipsKept ==
    /\ erd'.relationships = erd.relationships
    /\ diagram'.relationships = diagram.relationships

\* A step that appends the relationship of the call to the ERD.
ErdRelationshipAppended ==
    /\ call'.arg \in ErdRelationshipInputs
    /\ erd'.relationships = Append(erd.relationships, call'.arg)
    /\ diagram'.relationships = diagram.relationships

\* A step that appends the relationship of the call to the diagram.
ReqRelationshipAppended ==
    /\ call'.arg \in ReqRelationshipInputs
    /\ diagram'.relationships = Append(diagram.relationships, call'.arg)
    /\ erd'.relationships = erd.relationships

\* C25: no step removes a key of entities, elements or requirements, and
\* the relationships before a step are a prefix of those after it; a
\* successful add_relationship appends its relationship at the end (also
\* when an equal one is stored), and no other step changes relationships.
C25_NothingIsRemoved ==
    [][/\ DOMAIN erd.entities \subseteq DOMAIN erd'.entities
       /\ DOMAIN diagram.elements \subseteq DOMAIN diagram'.elements
       /\ DOMAIN diagram.requirements \subseteq DOMAIN diagram'.requirements
       /\ IsPrefix(erd.relationships, erd'.relationships)
       /\ IsPrefix(diagram.relationships, diagram'.relationships)
       /\ IF call'.op = "add_relationship" /\ call'.panic = None
          THEN ErdRelationshipAppended \/ ReqRelationshipAppended
          ELSE RelationshipsKept]_vars

\* C25 witness: a relationship equal to the one already stored was added
\* and is stored twice.
C25_Witness ==
    /\ ErdRelationshipAdded
    /\ Len(old_erd.relationships) = 1
    /\ old_erd.relationships[1] = call.arg
    /\ erd.relationships = <<call.arg, call.arg>>

(***************************************************************************)
(* Frame of ERD::add_entity (ErdSpec)                                      *)
(***************************************************************************)
\* C26: add_entity (and with_entity) leaves relationships as they were and
\* changes no entry of entities other than the one keyed by the id of the
\* entity added; the endpoints of the relationships are still keys of
\* entities after it.
C26_AddEntityFrame ==
    call.op = "add_entity" =>
        LET key == EntityId_from(call.arg.id)
            others == (DOMAIN old_erd.entities \cup DOMAIN erd.entities)
                        \ {key}
        IN  /\ erd.relationships = old_erd.relationships
            /\ \A id \in others :
                    ERD_get_entity_by_id(erd, id)
                        = ERD_get_entity_by_id(old_erd, id)
            /\ \A i \in DOMAIN erd.relationships :
                    /\ erd.relationships[i].left_id \in DOMAIN erd.entities
                    /\ erd.relationships[i].right_id \in DOMAIN erd.entities

\* C26 witness: an entity that two relationships refer to was replaced by
\* a different entity, and both relationships are still stored.
C26_Witness ==
    /\ call.op = "add_entity"
    /\ ERD_get_entity_by_id(old_erd, EntityId_from(call.arg.id)) # None
    /\ ERD_get_entity_by_id(old_erd, EntityId_from(call.arg.id))
            # Some(call.arg)
    /\ Len(erd.relationships) = 2
    /\ erd.relationships = old_erd.relationships
    /\ \A i \in DOMAIN erd.relationships :
            erd.relationships[i].right_id = EntityId_from(call.arg.id)
    /\ EntityCount(erd) = 3

(***************************************************************************)
(* Elements and requirements are two namespaces (ReqRenderSpec)            *)
(***************************************************************************)
\* A step of with_element (add_element) leaves requirements as they were,
\* a step of with_requirement (add_requirement) leaves elements as they
\* were.
SeparateNamespacesStep ==
    /\ ReqRenderWithElement => item'.requirements = item.requirements
    /\ ReqRenderWithRequirement => item'.elements = item.elements

\* Every name stored in both maps has its element and its requirement in
\* the text.
SameNameBothRendered ==
    output # None =>
        \A name \in DOMAIN item.elements \cap DOMAIN item.requirements :
            /\ contains(output[1], "\n    element " \o name \o " {\n")
            /\ contains(output[1],
                        "\n    "
                        \o RequirementType_fmt(item.requirements[name].kind)
                        \o " " \o name \o " {\n")

\* A relationship whose endpoints are each a key of elements or of
\* requirements is accepted and appended.
EitherMapAccepts ==
    \A relationship \in ReqRenderRelationshipInputs :
        LET Stored(name) ==
                \/ name \in DOMAIN item.elements
                \/ name \in DOMAIN item.requirements
            result == RequirementDiagram_with_relationship(item, relationship)
        IN  (Stored(relationship.source) /\ Stored(relationship.target)) =>
                /\ result.panic = None
                /\ result.diagram.relationships
                        = Append(item.relationships, relationship)

\* C27: add_element never changes requirements and add_requirement never
\* changes elements; an element and a requirement of the same name are
\* both stored and both rendered; a relationship endpoint is accepted
\* when either map has its name.
C27_SeparateNamespaces ==
    /\ [][SeparateNamespacesStep]_vars
    /\ [](SameNameBothRendered /\ EitherMapAccepts)

\* C27 witness: foo is an element and a requirement, Foo a requirement
\* only; the relationship from foo to Foo was accepted and both items
\* named foo are in the text.
C27_Witness ==
    /\ output # None
    /\ DOMAIN item.elements = {"foo"}
    /\ DOMAIN item.requirements = {"foo", "Foo"}
    /\ item.relationships = <<req_Relationship_new("foo", "Foo", "Copies")>>
    /\ contains(output[1], "\n    element foo {\n")
    /\ contains(output[1], "\n    requirement foo {\n")
    /\ contains(output[1], "\n    foo - copies -> Foo\n")

(***************************************************************************)
(* Rendering of either diagram: item is an ERD or a RequirementDiagram,    *)
(* built by its with_ methods and rendered by its to_string().             *)
(***************************************************************************)
IsErd(d) == "entities" \in DOMAIN d

DiagramRenderInit ==
    /\ NewContainers
    /\ item \in {ERD_new, RequirementDiagram_new}
    /\ calls = <<>>
    /\ output = None

DiagramRenderNext ==
    \/ /\ IsErd(item)
       /\ ErdRenderNext
    \/ /\ ~IsErd(item)
       /\ ReqRenderNext

DiagramRenderSpec == DiagramRenderInit /\ [][DiagramRenderNext]_vars

\* The lines between the banner lines of the section of a title; no line
\* when the section is absent.
SectionLines(lines, title) ==
    LET start == Positions(lines, "    %% " \o title \o " start")
        end == Positions(lines, "    %% " \o title \o " end")
    IN  IF start = {} \/ end = {}
        THEN <<>>
        ELSE SubSeq(lines, (CHOOSE i \in start : TRUE) + 1,
                           (CHOOSE i \in end : TRUE) - 1)

\* The lines of a rendering inside a section: 4 spaces before each line.
SectionLinesOf(text) ==
    LET pieces == SplitAtLineFeeds(text)
    IN  [i \in DOMAIN pieces |-> "    " \o pieces[i]]

RECURSIVE Flatten(_)
Flatten(seqs) ==
    IF seqs = <<>> THEN <<>> ELSE Head(seqs) \o Flatten(Tail(seqs))

\* The section holds the renderings of the sequence, in its order.
ListsInOrder(section, items, Fmt(_)) ==
    section = Flatten([i \in DOMAIN items |-> SectionLinesOf(Fmt(items[i]))])

\* The section holds the rendering of every value of the map exactly once,
\* in some order.
ListsEachOnce(section, m, Fmt(_)) ==
    \E order \in IterationOrders(m) :
        section = Flatten([i \in DOMAIN order |->
                                SectionLinesOf(Fmt(m[order[i]]))])

\* The number of lines of a section that start with a prefix.
CountStarting(section, prefix) ==
    Cardinality({i \in DOMAIN section :
                    /\ Len(section[i]) >= Len(prefix)
                    /\ SubSeq(section[i], 1, Len(prefix)) = prefix})

\* C28: in the text of a diagram the Relationships section lists the
\* stored relationships in the order they were added, and the Entities
\* (Elements, Requirements) section holds the rendering of every stored
\* item exactly once, so as many items as the collection has.
C28_SectionsListEveryItem ==
    output # None =>
        LET lines == str_lines(output[1])
        IN  IF IsErd(item)
            THEN /\ ListsInOrder(SectionLines(lines, "Relationships"),
                                 item.relationships, erd_Relationship_fmt)
                 /\ ListsEachOnce(SectionLines(lines, "Entities"),
                                  item.entities, Entity_fmt)
                 /\ Len(SectionLines(lines, "Entities"))
                        = Cardinality(DOMAIN item.entities)
                 /\ Len(SectionLines(lines, "Relationships"))
                        = Len(item.relationships)
            ELSE /\ ListsInOrder(SectionLines(lines, "Relationships"),
                                 item.relationships, req_Relationship_fmt)
                 /\ ListsEachOnce(SectionLines(lines, "Elements"),
                                  item.elements, Element_fmt)
                 /\ ListsEachOnce(SectionLines(lines, "Requirements"),
                                  item.requirements, Requirement_fmt)
                 /\ CountStarting(SectionLines(lines, "Elements"),
                                  "    element ")
                        = Cardinality(DOMAIN item.elements)
                 /\ CountStarting(SectionLines(lines, "Requirements"),
                                  "        id: ")
                        = Cardinality(DOMAIN item.requirements)
                 /\ Len(SectionLines(lines, "Relationships"))
                        = Len(item.relationships)

\* C28 witness: an ERD of three entities and two different relationships
\* was rendered.
C28_Witness ==
    /\ output # None
    /\ IsErd(item)
    /\ EntityCount(item) = 3
    /\ Len(item.relationships) = 2
    /\ item.relationships[1] # item.relationships[2]
    /\ contains(output[1], erd_Relationship_fmt(item.relationships[1])
                            \o "\n    "
                            \o erd_Relationship_fmt(item.relationships[2]))

\* The case of C28 for a RequirementDiagram: two elements, two
\* requirements and two different relationships were rendered.
C28_DiagramReached ==
    /\ output # None
    /\ ~IsErd(item)
    /\ Cardinality(DOMAIN item.elements) = 2
    /\ Cardinality(DOMAIN item.requirements) = 2
    /\ Len(item.relationships) = 2
    /\ item.relationships[1] # item.relationships[2]
=============================================================================
